---- MODULE Spec2Model ----
(***************************************************************************)
(* Monte Carlo tree search of src/AI/ai_MCTS.py: the Game_Node heap, the   *)
(* MCTS driver loop and back_propagate.                                    *)
(*                                                                         *)
(* Numbers: every real of the program (value evaluations, UCB1 scores,     *)
(* policy probabilities, Dirichlet noise, blended scores) is kept in       *)
(* hundredths, as an integer (1.0 is One = 100), rounded down.             *)
(* Optional values: None is <<>>, a present value x is <<x>>.              *)
(* A tensor of MAX_MOVES slots that ends in a run of zeros is kept as      *)
(* [head, zeros]: the slots of head followed by zeros slots equal to 0.    *)
(* Node references are indices into heap; the parent_node value False is   *)
(* NoNode = 0.                                                             *)
(***************************************************************************)
EXTENDS Integers, Sequences, FiniteSets, TLC

VARIABLES
    heap,            \* the Game_Node objects, by reference (index)
    pc,              \* position of the running MCTS call: idle, loop, descend, backprop
    root,            \* MCTS local: root
    selected_node,   \* MCTS local: selected_node
    iterations,      \* MCTS parameter: iterations
    it,              \* MCTS local: the loop variable _ (iterations completed)
    outcome,         \* how the last MCTS/API call ended: none, returned, or the exception raised
    last,            \* the operation that made the last step
    kind,            \* the call in progress or last finished: none, fresh, reuse, back_propagate, ...
    entry,           \* heap at the entry of the last MCTS or API call
    pre,             \* heap right before the last back_propagate
    args,            \* arguments of the last back_propagate or direct method call
    calls,           \* calls made on the current tree after the MCTS call that built it
    detached,        \* nodes that were passed to MCTS as starting_node
    expanded,        \* the node line 196 expanded in the current iteration, if any
    leaf_count,      \* per node, the iterations that backed up its value_evaluation
    root_pv,         \* the root's policy vector fields as line 176 left them
    directs          \* direct (outside MCTS) calls made on the current tree

vars == <<heap, pc, root, selected_node, iterations, it, outcome, last, kind,
          entry, pre, args, calls, detached, expanded, leaf_count, root_pv, directs>>

-----------------------------------------------------------------------------
(* Bounds *)

MaxIter == 2          \* largest iteration budget of one MCTS call
MaxCalls == 1         \* calls made on a tree after the MCTS call that built it

-----------------------------------------------------------------------------
(* Program constants *)

One == 100            \* 1.0, float(True)
Half == 50            \* 0.5, the value of a drawn game
WinAbove == 75        \* 0.75
LossBelow == 25       \* 0.25
MAX_MOVES == 218      \* length of policy_vector
NoNode == 0           \* parent_node = False

None == <<>>
Some(x) == <<x>>

-----------------------------------------------------------------------------
(* The game engine and the oracles (external collaborators).  A game state *)
(* is the sequence of moves played from the initial position.              *)

Games == { <<>>, <<1>>, <<2>>, <<1,1>>, <<1,2>>, <<1,1,1>> }

legal_moves(g) ==
    CASE g = <<>>     -> <<1, 2>>
      [] g = <<1>>    -> <<1, 2>>
      [] g = <<1,1>>  -> <<1>>
      [] OTHER        -> <<>>

move_turn(g) == IF Len(g) % 2 = 0 THEN "white" ELSE "black"

play_machine_move(g, m) == Append(g, m)

\* game.stalemate after check_for_checkmate() and look_for_draws():
\* the game is decided (mate, stalemate, or a draw by rule at <<1,1>>, where
\* a move can still be played).
stalemate(g) == legal_moves(g) = <<>> \/ g = <<1,1>>

\* game.white_win: Some(TRUE) white won, Some(FALSE) black won, None otherwise
white_win(g) ==
    CASE g = <<2>>     -> Some(TRUE)
      [] g = <<1,2>>   -> Some(FALSE)
      [] g = <<1,1,1>> -> Some(TRUE)
      [] OTHER         -> None

\* VALUE_NETWORK(ai.to_bits(game)).numpy()[0, 0]
VALUE_NETWORK(g) ==
    CASE g = <<>>    -> 50
      [] g = <<1>>   -> 90
      [] OTHER       -> 40

\* POLICY_NETWORK(ai.to_bits(game)): raw scores of the MAX_MOVES move slots
POLICY_NETWORK(g) ==
    [head |-> << 3 + Len(g), 2, 1, 4 - Len(g) >>, zeros |-> MAX_MOVES - 4]

-----------------------------------------------------------------------------
(* Arithmetic *)

RECURSIVE SumRange(_, _, _)
SumRange(s, lo, hi) ==
    IF lo > hi THEN 0
    ELSE IF lo = hi THEN s[lo]
    ELSE LET mid == (lo + hi) \div 2
         IN  SumRange(s, lo, mid) + SumRange(s, mid + 1, hi)

\* sum of the elements of a sequence
Sum(s) == SumRange(s, 1, Len(s))

\* tf.math.reduce_sum of a padded tensor: the zeros add nothing
reduce_sum(t) == Sum(t.head) + 0 * t.zeros

\* slot i of a padded tensor
Slot(t, i) == IF i <= Len(t.head) THEN t.head[i] ELSE 0

\* 1000 * ln(N) for N = 1..16
LnTable == <<0, 693, 1099, 1386, 1609, 1792, 1946, 2079,
             2197, 2303, 2398, 2485, 2565, 2639, 2708, 2773>>

\* the largest r in lo..hi with r * r <= x
RECURSIVE SqrtBetween(_, _, _)
SqrtBetween(x, lo, hi) ==
    IF lo = hi THEN lo
    ELSE LET mid == (lo + hi + 1) \div 2
         IN  IF mid * mid <= x THEN SqrtBetween(x, mid, hi)
             ELSE SqrtBetween(x, lo, mid - 1)

\* floor of the square root
ISqrt(x) == SqrtBetween(x, 0, x)

\* tf.argmax: index of the first maximum
argmax(s) ==
    CHOOSE i \in 1..Len(s) :
        /\ \A j \in 1..Len(s) : s[j] <= s[i]
        /\ \A j \in 1..(i - 1) : s[j] < s[i]

\* element-wise + of two rank-1 tensors, a tensor of length 1 being broadcast:
\* [err, val]
TensorAdd(a, b) ==
    IF Len(a) = Len(b)
    THEN [err |-> "none", val |-> [i \in 1..Len(a) |-> a[i] + b[i]]]
    ELSE IF Len(b) = 1
    THEN [err |-> "none", val |-> [i \in 1..Len(a) |-> a[i] + b[1]]]
    ELSE IF Len(a) = 1
    THEN [err |-> "none", val |-> [i \in 1..Len(b) |-> a[1] + b[i]]]
    ELSE [err |-> "InvalidArgumentError", val |-> <<>>]

-----------------------------------------------------------------------------
(* Game_Node *)

\* Game_Node.__init__, terminal_game_state taken from game.stalemate
Game_Node_terminal_by_stalemate(game, move, parent_node) ==
    [ move |-> move,
      game |-> game,
      parent_node |-> parent_node,
      value_evaluation |->
          IF stalemate(game)
          THEN IF white_win(game) # None
               THEN (IF white_win(game)[1] THEN One ELSE 0)
               ELSE Half
          ELSE VALUE_NETWORK(game),
      policy_vector |-> None,
      policy_vector_legal_moves |-> None,
      number_of_visits |-> 0,
      child_nodes |-> <<>>,
      visited_boards |-> <<>>,
      wins |-> 0,
      terminal_game_state |-> stalemate(game) ]

\* Game_Node.__init__
Game_Node(game, move, parent_node) ==
    [ move |-> move,
      game |-> game,
      parent_node |-> parent_node,
      value_evaluation |->
          IF stalemate(game)
          THEN IF white_win(game) # None
               THEN (IF white_win(game)[1] THEN One ELSE 0)
               ELSE Half
          ELSE VALUE_NETWORK(game),
      policy_vector |-> None,
      policy_vector_legal_moves |-> None,
      number_of_visits |-> 0,
      child_nodes |-> <<>>,
      visited_boards |-> <<>>,
      wins |-> 0,
      terminal_game_state |-> ~(Len(legal_moves(game)) > 0) ]

\* init_all_children, the move not handed to the new node
init_all_children_no_move(h, n) ==
    LET lm == legal_moves(h[n].game)
        new_game(i) == play_machine_move(h[n].game, lm[i])
        new_nodes == [i \in 1..Len(lm) |-> Game_Node(new_game(i), None, n)]
        refs == [i \in 1..Len(lm) |-> Len(h) + i]
        boards == [i \in 1..Len(lm) |-> new_game(i)]
    IN  [ (h \o new_nodes) EXCEPT ![n].child_nodes = @ \o refs,
                                  ![n].visited_boards = @ \o boards ]

\* Game_Node.init_all_children
init_all_children(h, n) ==
    LET lm == legal_moves(h[n].game)
        new_game(i) == play_machine_move(h[n].game, lm[i])
        new_nodes == [i \in 1..Len(lm) |-> Game_Node(new_game(i), Some(lm[i]), n)]
        refs == [i \in 1..Len(lm) |-> Len(h) + i]
        boards == [i \in 1..Len(lm) |-> new_game(i)]
    IN  [ (h \o new_nodes) EXCEPT ![n].child_nodes = @ \o refs,
                                  ![n].visited_boards = @ \o boards ]

\* get_ucb1_score lines 113-126, the fallback without the logarithm
get_ucb1_score_no_log(h, c) ==
    LET n == h[c].number_of_visits
        p == h[c].parent_node
    IN  IF n # 0
        THEN IF p = NoNode THEN [err |-> "AttributeError", val |-> 0]
             ELSE IF h[p].number_of_visits = 0 THEN [err |-> "ValueError", val |-> 0]
             ELSE [err |-> "none",
                   val |-> (h[c].wins * One) \div n
                           + ISqrt((20 * LnTable[h[p].number_of_visits]) \div n)]
        ELSE IF p = NoNode THEN [err |-> "AttributeError", val |-> 0]
             ELSE [err |-> "none", val |-> ISqrt(20000 * h[p].number_of_visits)]

\* Game_Node.get_ucb1_score with the default exploration_constant sqrt(2):
\* [err, val]; C * sqrt(x) is sqrt(2 * x)
get_ucb1_score(h, c) ==
    LET n == h[c].number_of_visits
        p == h[c].parent_node
    IN  IF n # 0
        THEN \* wins / n is evaluated first, then math.log(parent.number_of_visits)
             IF p = NoNode THEN [err |-> "AttributeError", val |-> 0]
             ELSE IF h[p].number_of_visits = 0 THEN [err |-> "ValueError", val |-> 0]
             ELSE [err |-> "none",
                   val |-> (h[c].wins * One) \div n
                           + ISqrt((20 * LnTable[h[p].number_of_visits]) \div n)]
        ELSE \* except ZeroDivisionError
             IF p = NoNode THEN [err |-> "AttributeError", val |-> 0]
             ELSE IF h[p].number_of_visits > 0
                  THEN [err |-> "none", val |-> ISqrt(20 * LnTable[h[p].number_of_visits])]
                  ELSE [err |-> "none", val |-> 0]

\* Game_Node.find_child_node_information: [err, evaluations, ucb1_scores]
find_child_node_information(h, n) ==
    LET cs == h[n].child_nodes
        bad == { i \in 1..Len(cs) : get_ucb1_score(h, cs[i]).err # "none" }
    IN  IF bad # {}
        THEN [err |-> get_ucb1_score(h, cs[CHOOSE i \in bad : \A j \in bad : i <= j]).err,
              evaluations |-> <<>>, ucb1_scores |-> <<>>]
        ELSE [err |-> "none",
              evaluations |-> [i \in 1..Len(cs) |-> h[cs[i]].value_evaluation],
              ucb1_scores |-> [i \in 1..Len(cs) |-> get_ucb1_score(h, cs[i]).val]]

\* get_policy_vector lines 72-81, on the heap h1 in which n has its children
\* and with info, the result of line 72
blend_policy_vector(h1, n, info) ==
    LET policy_network_output == POLICY_NETWORK(h1[n].game)
        total == reduce_sum(policy_network_output)
        \* tf.divide(...)[0, :number_possible_moves]
        policy_network_probabilities(k) ==
            [i \in 1..k |-> (Slot(policy_network_output, i) * One) \div total]
        number_possible_moves == Len(legal_moves(h1[n].game))
        sum1 == TensorAdd(info.evaluations, info.ucb1_scores)
        sum2 == TensorAdd(sum1.val, policy_network_probabilities(number_possible_moves))
    IN  IF info.err # "none" THEN [err |-> info.err, heap |-> h1]
        ELSE IF sum2.err # "none" THEN [err |-> sum2.err, heap |-> h1]
        ELSE [err |-> "none",
              heap |-> [h1 EXCEPT
                  ![n].policy_vector_legal_moves = Some(sum2.val),
                  ![n].policy_vector =
                      Some([head |-> sum2.val, zeros |-> MAX_MOVES - number_possible_moves])]]

\* Game_Node.get_policy_vector: [err, heap]
\* (h1 and info are bound as values, each computed once)
get_policy_vector(h, n) ==
    CHOOSE r \in UNION {
        { blend_policy_vector(h1, n, info) :
              info \in {find_child_node_information(h1, n)} } :
          h1 \in {IF Len(h[n].child_nodes) = 0 THEN init_all_children(h, n) ELSE h} } : TRUE

\* Game_Node.select_child: the selected child, NoNode when the lookup raises
select_child(h, n, move_probabilities) ==
    IF Len(move_probabilities) < 1 THEN NoNode
    ELSE IF argmax(move_probabilities) > Len(h[n].child_nodes) THEN NoNode
    ELSE h[n].child_nodes[argmax(move_probabilities)]

\* back_propagate, number_of_visits counted only in the first branch
RECURSIVE back_propagate_visit_in_branch(_, _, _, _)
back_propagate_visit_in_branch(h, node, result, leaf_move_turn) ==
    IF node = NoNode THEN h
    ELSE LET same == move_turn(h[node].game) = leaf_move_turn
             win == IF same THEN result > WinAbove ELSE result < LossBelow
             h1 == [h EXCEPT ![node].number_of_visits = IF same THEN @ + 1 ELSE @,
                             ![node].wins = IF win THEN @ + 1 ELSE @]
         IN  back_propagate_visit_in_branch(h1, h[node].parent_node, result, leaf_move_turn)

\* back_propagate, the walk stopping below the root (while node.parent_node)
RECURSIVE back_propagate_below_root(_, _, _, _)
back_propagate_below_root(h, node, result, leaf_move_turn) ==
    IF node = NoNode \/ h[node].parent_node = NoNode THEN h
    ELSE LET win == IF move_turn(h[node].game) = leaf_move_turn
                    THEN result > WinAbove
                    ELSE result < LossBelow
             h1 == [h EXCEPT ![node].number_of_visits = @ + 1,
                             ![node].wins = IF win THEN @ + 1 ELSE @]
         IN  back_propagate_below_root(h1, h[node].parent_node, result, leaf_move_turn)

\* back_propagate, the thresholds compared with >= and <=
RECURSIVE back_propagate_inclusive(_, _, _, _)
back_propagate_inclusive(h, node, result, leaf_move_turn) ==
    IF node = NoNode THEN h
    ELSE LET win == IF move_turn(h[node].game) = leaf_move_turn
                    THEN result >= WinAbove
                    ELSE result <= LossBelow
             h1 == [h EXCEPT ![node].number_of_visits = @ + 1,
                             ![node].wins = IF win THEN @ + 1 ELSE @]
         IN  back_propagate_inclusive(h1, h[node].parent_node, result, leaf_move_turn)

\* back_propagate
RECURSIVE back_propagate(_, _, _, _)
back_propagate(h, node, result, leaf_move_turn) ==
    IF node = NoNode THEN h
    ELSE LET win == IF move_turn(h[node].game) = leaf_move_turn
                    THEN result > WinAbove
                    ELSE result < LossBelow
             h1 == [h EXCEPT ![node].number_of_visits = @ + 1,
                             ![node].wins = IF win THEN @ + 1 ELSE @]
         IN  back_propagate(h1, h[node].parent_node, result, leaf_move_turn)

-----------------------------------------------------------------------------
(* MCTS *)

FreshGames == { <<>>, <<1>>, <<2>> }         \* game arguments of MCTS
Results == { 10, 25, 75, 90 }   \* result arguments of back_propagate
Turns == { "white", "black" }

\* np.random.dirichlet(alpha) for len(alpha) = n: points of the simplex
Dirichlet(n) == { d \in [1..n -> {0, Half, One}] : Sum(d) = One }

NoArgs == [node |-> NoNode, result |-> 0, leaf_move_turn |-> "none"]

\* MCTS lines 170-172, the parent link kept
reuse_root_keeps_parent(h, starting_node) == h

\* MCTS lines 170-172: the starting node becomes the root
reuse_root(h, starting_node) == [h EXCEPT ![starting_node].parent_node = NoNode]

\* MCTS lines 174-176, the terminal test left out
mcts_setup_no_terminal_test(h, r) ==
    LET g == get_policy_vector(h, r)
    IN  [err |-> g.err, heap |-> g.heap, done |-> FALSE]

\* MCTS lines 174-176, the policy vector computed only when absent
mcts_setup_keep_present(h, r) ==
    IF h[r].terminal_game_state
    THEN [err |-> "none", heap |-> h, done |-> TRUE]
    ELSE IF h[r].policy_vector # None
    THEN [err |-> "none", heap |-> h, done |-> FALSE]
    ELSE LET g == get_policy_vector(h, r)
         IN  [err |-> g.err, heap |-> g.heap, done |-> FALSE]

\* MCTS lines 174-176: [err, heap, done]
mcts_setup(h, r) ==
    IF h[r].terminal_game_state
    THEN [err |-> "none", heap |-> h, done |-> TRUE]
    ELSE LET g == get_policy_vector(h, r)
         IN  [err |-> g.err, heap |-> g.heap, done |-> FALSE]

\* the state in which a call of MCTS or of a method has ended
Ended(h, how) ==
    /\ heap' = h
    /\ pc' = "idle"
    /\ outcome' = how

\* the policy vector fields of node n
PolicyFields(h, n) ==
    [policy_vector |-> h[n].policy_vector,
     policy_vector_legal_moves |-> h[n].policy_vector_legal_moves]

\* leaf_count with one more iteration counted for node n
CountLeaf(lc, n) ==
    [m \in DOMAIN lc \cup {n} |->
        IF m = n THEN (IF n \in DOMAIN lc THEN lc[n] ELSE 0) + 1 ELSE lc[m]]

\* MCTS(game=game, iterations=iters), up to the for loop
MCTS_game(game, iters) ==
    /\ pc = "idle"
    /\ LET h0 == << Game_Node(game, None, NoNode) >>
           s == mcts_setup(h0, 1)
       IN  /\ root' = 1
           /\ IF s.done \/ s.err # "none"
              THEN Ended(s.heap, IF s.err # "none" THEN s.err ELSE "returned")
              ELSE heap' = s.heap /\ pc' = "loop" /\ outcome' = "none"
    /\ iterations' = iters
    /\ it' = 0
    /\ selected_node' = NoNode
    /\ last' = "MCTS"
    /\ kind' = "fresh"
    /\ entry' = <<>>
    /\ pre' = <<>>
    /\ args' = NoArgs
    /\ calls' = 0
    /\ detached' = {}
    /\ expanded' = NoNode
    /\ leaf_count' = <<>>
    /\ root_pv' = PolicyFields(heap', 1)
    /\ directs' = 0

\* the nodes a caller passes as starting_node: the roots MCTS has returned
\* and the children of the last root (Game_Node.make_a_move)
Held ==
    IF heap = <<>> THEN {}
    ELSE {1} \cup detached \cup { heap[root].child_nodes[i] : i \in 1..Len(heap[root].child_nodes) }

\* MCTS(starting_node=starting_node, iterations=iters), up to the for loop
MCTS_starting_node(starting_node, iters) ==
    /\ pc = "idle"
    /\ starting_node \in Held
    /\ calls < MaxCalls
    /\ LET s == mcts_setup(reuse_root(heap, starting_node), starting_node)
       IN  IF s.done \/ s.err # "none"
           THEN Ended(s.heap, IF s.err # "none" THEN s.err ELSE "returned")
           ELSE heap' = s.heap /\ pc' = "loop" /\ outcome' = "none"
    /\ root' = starting_node
    /\ iterations' = iters
    /\ it' = 0
    /\ selected_node' = NoNode
    /\ last' = "MCTS"
    /\ kind' = "reuse"
    /\ entry' = heap
    /\ detached' = detached \cup {starting_node}
    /\ calls' = calls + 1
    /\ pre' = <<>>
    /\ args' = NoArgs
    /\ expanded' = NoNode
    /\ root_pv' = PolicyFields(heap', starting_node)
    /\ UNCHANGED <<leaf_count, directs>>

\* lines 184-187, the noisy scores stored back into the root
IterationSelect_noise_stored(dirichlet_noise) ==
    /\ pc = "loop"
    /\ it < iterations
    /\ LET noise_probabilities ==
               TensorAdd(heap[root].policy_vector_legal_moves[1], dirichlet_noise)
           sel == select_child(heap, root, noise_probabilities.val)
       IN  IF noise_probabilities.err # "none"
           THEN Ended(heap, noise_probabilities.err) /\ selected_node' = selected_node
           ELSE IF sel = NoNode
           THEN Ended(heap, "IndexError") /\ selected_node' = selected_node
           ELSE /\ selected_node' = sel
                /\ pc' = "descend"
                /\ heap' = [heap EXCEPT ![root].policy_vector_legal_moves =
                                            Some(noise_probabilities.val)]
                /\ UNCHANGED outcome
    /\ last' = "select"
    /\ UNCHANGED <<root, iterations, it, kind, entry, pre, args, calls, detached>>
    /\ expanded' = NoNode
    /\ UNCHANGED <<leaf_count, root_pv, directs>>

\* lines 184-187: the noisy selection at the root
IterationSelect(dirichlet_noise) ==
    /\ pc = "loop"
    /\ it < iterations
    /\ LET noise_probabilities ==
               TensorAdd(heap[root].policy_vector_legal_moves[1], dirichlet_noise)
           sel == select_child(heap, root, noise_probabilities.val)
       IN  IF noise_probabilities.err # "none"
           THEN Ended(heap, noise_probabilities.err) /\ selected_node' = selected_node
           ELSE IF sel = NoNode
           THEN Ended(heap, "IndexError") /\ selected_node' = selected_node
           ELSE /\ selected_node' = sel
                /\ pc' = "descend"
                /\ UNCHANGED <<heap, outcome>>
    /\ last' = "select"
    /\ UNCHANGED <<root, iterations, it, kind, entry, pre, args, calls, detached>>
    /\ expanded' = NoNode
    /\ UNCHANGED <<leaf_count, root_pv, directs>>

\* line 189, the descent also left at a visited node without policy vector
WhileExit_unexpanded ==
    /\ pc = "descend"
    /\ \/ ~(heap[selected_node].number_of_visits > 0)
       \/ heap[selected_node].policy_vector_legal_moves = None
    /\ pc' = "backprop"
    /\ last' = "exit"
    /\ UNCHANGED <<heap, root, selected_node, iterations, it, outcome, kind,
                   entry, pre, args, calls, detached>>
    /\ UNCHANGED <<expanded, leaf_count, root_pv, directs>>

\* line 189: the while condition is false
WhileExit ==
    /\ pc = "descend"
    /\ ~(heap[selected_node].number_of_visits > 0)
    /\ pc' = "backprop"
    /\ last' = "exit"
    /\ UNCHANGED <<heap, root, selected_node, iterations, it, outcome, kind,
                   entry, pre, args, calls, detached>>
    /\ UNCHANGED <<expanded, leaf_count, root_pv, directs>>

\* lines 190-192, without the test of terminal_game_state
WhileSelect_no_terminal_test ==
    /\ pc = "descend"
    /\ heap[selected_node].number_of_visits > 0
    /\ heap[selected_node].policy_vector_legal_moves # None
    /\ LET sel == select_child(heap, selected_node,
                               heap[selected_node].policy_vector_legal_moves[1])
       IN  IF sel = NoNode
           THEN Ended(heap, "IndexError") /\ selected_node' = selected_node
           ELSE selected_node' = sel /\ UNCHANGED <<heap, pc, outcome>>
    /\ last' = "descend"
    /\ UNCHANGED <<root, iterations, it, kind, entry, pre, args, calls, detached>>
    /\ UNCHANGED <<expanded, leaf_count, root_pv, directs>>

\* lines 190-192, the scores recomputed before each selection
WhileSelect_recompute ==
    /\ pc = "descend"
    /\ heap[selected_node].number_of_visits > 0
    /\ heap[selected_node].policy_vector_legal_moves # None
    /\ ~heap[selected_node].terminal_game_state
    /\ LET g == get_policy_vector(heap, selected_node)
           sel == select_child(g.heap, selected_node,
                               g.heap[selected_node].policy_vector_legal_moves[1])
       IN  IF g.err # "none"
           THEN Ended(g.heap, g.err) /\ selected_node' = selected_node
           ELSE IF sel = NoNode
           THEN Ended(g.heap, "IndexError") /\ selected_node' = selected_node
           ELSE selected_node' = sel /\ heap' = g.heap /\ UNCHANGED <<pc, outcome>>
    /\ last' = "descend"
    /\ UNCHANGED <<root, iterations, it, kind, entry, pre, args, calls, detached>>
    /\ UNCHANGED <<expanded, leaf_count, root_pv, directs>>

\* lines 190-192: descend to a child by the stored scores
WhileSelect ==
    /\ pc = "descend"
    /\ heap[selected_node].number_of_visits > 0
    /\ heap[selected_node].policy_vector_legal_moves # None
    /\ ~heap[selected_node].terminal_game_state
    /\ LET sel == select_child(heap, selected_node,
                               heap[selected_node].policy_vector_legal_moves[1])
       IN  IF sel = NoNode
           THEN Ended(heap, "IndexError") /\ selected_node' = selected_node
           ELSE selected_node' = sel /\ UNCHANGED <<heap, pc, outcome>>
    /\ last' = "descend"
    /\ UNCHANGED <<root, iterations, it, kind, entry, pre, args, calls, detached>>
    /\ UNCHANGED <<expanded, leaf_count, root_pv, directs>>

\* lines 193-194, the loop kept running at a terminal node
WhileBreak_spin ==
    /\ pc = "descend"
    /\ heap[selected_node].number_of_visits > 0
    /\ heap[selected_node].policy_vector_legal_moves # None
    /\ heap[selected_node].terminal_game_state
    /\ pc' = "descend"
    /\ last' = "break"
    /\ UNCHANGED <<heap, root, selected_node, iterations, it, outcome, kind,
                   entry, pre, args, calls, detached>>
    /\ UNCHANGED <<expanded, leaf_count, root_pv, directs>>

\* lines 193-194: break at a terminal node
WhileBreak ==
    /\ pc = "descend"
    /\ heap[selected_node].number_of_visits > 0
    /\ heap[selected_node].policy_vector_legal_moves # None
    /\ heap[selected_node].terminal_game_state
    /\ pc' = "backprop"
    /\ last' = "break"
    /\ UNCHANGED <<heap, root, selected_node, iterations, it, outcome, kind,
                   entry, pre, args, calls, detached>>
    /\ UNCHANGED <<expanded, leaf_count, root_pv, directs>>

\* lines 195-196, followed by a break
WhileExpand_then_break ==
    /\ pc = "descend"
    /\ heap[selected_node].number_of_visits > 0
    /\ heap[selected_node].policy_vector_legal_moves = None
    /\ LET g == get_policy_vector(heap, selected_node)
       IN  IF g.err # "none"
           THEN Ended(g.heap, g.err)
           ELSE heap' = g.heap /\ pc' = "backprop" /\ UNCHANGED outcome
    /\ last' = "expand"
    /\ UNCHANGED <<root, selected_node, iterations, it, kind, entry, pre, args,
                   calls, detached>>
    /\ expanded' = selected_node
    /\ UNCHANGED <<leaf_count, root_pv, directs>>

\* lines 195-196: the policy vector of the selected node is computed
WhileExpand ==
    /\ pc = "descend"
    /\ heap[selected_node].number_of_visits > 0
    /\ heap[selected_node].policy_vector_legal_moves = None
    /\ LET g == get_policy_vector(heap, selected_node)
       IN  IF g.err # "none"
           THEN Ended(g.heap, g.err)
           ELSE heap' = g.heap /\ UNCHANGED <<pc, outcome>>
    /\ last' = "expand"
    /\ UNCHANGED <<root, selected_node, iterations, it, kind, entry, pre, args,
                   calls, detached>>
    /\ expanded' = selected_node
    /\ UNCHANGED <<leaf_count, root_pv, directs>>

\* lines 200-201, the walk started at the root instead of the selected node
Backup_from_root ==
    /\ pc = "backprop"
    /\ LET self_win == heap[selected_node].value_evaluation
           turn == move_turn(heap[selected_node].game)
       IN  /\ heap' = back_propagate(heap, root, self_win, turn)
           /\ args' = [node |-> root, result |-> self_win,
                       leaf_move_turn |-> turn]
    /\ pre' = heap
    /\ it' = it + 1
    /\ pc' = "loop"
    /\ last' = "back_propagate"
    /\ UNCHANGED <<root, selected_node, iterations, outcome, kind, entry, calls, detached>>
    /\ leaf_count' = CountLeaf(leaf_count, selected_node)
    /\ UNCHANGED <<expanded, root_pv, directs>>

\* lines 200-201: the evaluation of the selected node is backed up
Backup ==
    /\ pc = "backprop"
    /\ LET self_win == heap[selected_node].value_evaluation
           turn == move_turn(heap[selected_node].game)
       IN  /\ heap' = back_propagate(heap, selected_node, self_win, turn)
           /\ args' = [node |-> selected_node, result |-> self_win,
                       leaf_move_turn |-> turn]
    /\ pre' = heap
    /\ it' = it + 1
    /\ pc' = "loop"
    /\ last' = "back_propagate"
    /\ UNCHANGED <<root, selected_node, iterations, outcome, kind, entry, calls, detached>>
    /\ leaf_count' = CountLeaf(leaf_count, selected_node)
    /\ UNCHANGED <<expanded, root_pv, directs>>

\* line 204: return root
MCTSReturn ==
    /\ pc = "loop"
    /\ ~(it < iterations)
    /\ pc' = "idle"
    /\ outcome' = "returned"
    /\ last' = "return"
    /\ UNCHANGED <<heap, root, selected_node, iterations, it, kind, entry, pre,
                   args, calls, detached>>
    /\ UNCHANGED <<expanded, leaf_count, root_pv, directs>>

\* a direct call back_propagate(node, result, leaf_move_turn)
BackPropagateCall(node, result, leaf_move_turn) ==
    /\ pc = "idle"
    /\ node \in DOMAIN heap
    /\ calls < MaxCalls
    /\ heap' = back_propagate(heap, node, result, leaf_move_turn)
    /\ pre' = heap
    /\ args' = [node |-> node, result |-> result, leaf_move_turn |-> leaf_move_turn]
    /\ calls' = calls + 1
    /\ last' = "back_propagate"
    /\ kind' = "direct"
    /\ outcome' = "returned"
    /\ UNCHANGED <<pc, root, selected_node, iterations, it, entry, detached>>
    /\ directs' = directs + 1
    /\ UNCHANGED <<expanded, leaf_count, root_pv>>

\* a direct call node.init_all_children()
InitAllChildrenCall(node) ==
    /\ pc = "idle"
    /\ node \in DOMAIN heap
    /\ calls < MaxCalls
    /\ heap' = init_all_children(heap, node)
    /\ entry' = heap
    /\ args' = [NoArgs EXCEPT !.node = node]
    /\ last' = "init_all_children"
    /\ kind' = "direct"
    /\ outcome' = "returned"
    /\ calls' = calls + 1
    /\ UNCHANGED <<pc, root, selected_node, iterations, it, pre, detached>>
    /\ directs' = directs + 1
    /\ UNCHANGED <<expanded, leaf_count, root_pv>>

\* a direct call node.get_policy_vector()
GetPolicyVectorCall(node) ==
    /\ pc = "idle"
    /\ node \in DOMAIN heap
    /\ LET g == get_policy_vector(heap, node)
       IN  /\ calls < MaxCalls
           /\ heap' = g.heap
           /\ outcome' = IF g.err # "none" THEN g.err ELSE "returned"
    /\ entry' = heap
    /\ args' = [NoArgs EXCEPT !.node = node]
    /\ last' = "get_policy_vector"
    /\ kind' = "direct"
    /\ calls' = calls + 1
    /\ UNCHANGED <<pc, root, selected_node, iterations, it, pre, detached>>
    /\ directs' = directs + 1
    /\ UNCHANGED <<expanded, leaf_count, root_pv>>

-----------------------------------------------------------------------------
(* Specifications *)

Init ==
    /\ heap = <<>>
    /\ pc = "idle"
    /\ root = NoNode
    /\ selected_node = NoNode
    /\ iterations = 0
    /\ it = 0
    /\ outcome = "none"
    /\ last = "init"
    /\ kind = "none"
    /\ entry = <<>>
    /\ pre = <<>>
    /\ args = NoArgs
    /\ calls = 0
    /\ detached = {}
    /\ expanded = NoNode
    /\ leaf_count = <<>>
    /\ root_pv = [policy_vector |-> None, policy_vector_legal_moves |-> None]
    /\ directs = 0

Next ==
    \/ \E g \in FreshGames, k \in 0..MaxIter : MCTS_game(g, k)
    \/ \E s \in Held, k \in 0..MaxIter : MCTS_starting_node(s, k)
    \/ /\ pc = "loop"
       /\ \E d \in Dirichlet(Len(legal_moves(heap[root].game))) : IterationSelect(d)
    \/ WhileExit
    \/ WhileSelect
    \/ WhileBreak
    \/ WhileExpand
    \/ Backup
    \/ MCTSReturn
    \/ \E n \in DOMAIN heap, r \in Results, t \in Turns : BackPropagateCall(n, r, t)

\* the search driver and back_propagate
Spec == Init /\ [][Next]_vars

\* the steps of a running MCTS call (lines 180-204)
SearchStep ==
    \/ /\ pc = "loop"
       /\ \E d \in Dirichlet(Len(legal_moves(heap[root].game))) : IterationSelect(d)
    \/ WhileExit
    \/ WhileSelect
    \/ WhileBreak
    \/ WhileExpand
    \/ Backup
    \/ MCTSReturn

\* MCTS calls alone, fresh or on a node of an earlier tree
NextSearch ==
    \/ \E g \in FreshGames, k \in 0..MaxIter : MCTS_game(g, k)
    \/ \E s \in Held, k \in 0..MaxIter : MCTS_starting_node(s, k)
    \/ SearchStep

\* a running call is not suspended: its next statement is executed
SpecFair == Init /\ [][NextSearch]_vars /\ WF_vars(SearchStep)

NextAPI ==
    \/ Next
    \/ \E n \in DOMAIN heap : InitAllChildrenCall(n)
    \/ \E n \in DOMAIN heap : GetPolicyVectorCall(n)

\* ... and direct calls of the expansion methods
SpecAPI == Init /\ [][NextAPI]_vars

-----------------------------------------------------------------------------
(* Properties *)

Nodes == DOMAIN heap

\* the nodes back_propagate walks from n in heap h: n and its ancestors
RECURSIVE ParentChain(_, _)
ParentChain(h, n) ==
    IF n = NoNode THEN {} ELSE {n} \cup ParentChain(h, h[n].parent_node)

\* the children of node n in heap h, as a set
Children(h, n) == { h[n].child_nodes[i] : i \in 1..Len(h[n].child_nodes) }

\* the sum of number_of_visits over the children of n
ChildVisits(h, n) ==
    Sum([i \in 1..Len(h[n].child_nodes) |-> h[h[n].child_nodes[i]].number_of_visits])

\* the last step was a back_propagate call (of MCTS or direct)
BackPropagated == last = "back_propagate"

\* the chain of the last back_propagate call
LastChain == ParentChain(pre, args.node)

\* the last back_propagate call added w to the wins of node i
WinsAdded(i, w) == heap[i].wins = pre[i].wins + w

\* C1: every node of the tree has 0 <= wins <= number_of_visits, in every
\* state reached by MCTS calls and back_propagate calls.
C1_WinsWithinVisits ==
    \A i \in Nodes :
        /\ 0 <= heap[i].wins
        /\ heap[i].wins <= heap[i].number_of_visits

\* C1 witness: a back_propagate credited a win to one node of its chain and
\* none to another.
C1_Witness ==
    /\ BackPropagated
    /\ \E i, j \in LastChain : WinsAdded(i, 1) /\ WinsAdded(j, 0)

\* C2: one back_propagate call adds exactly 1 to number_of_visits of every
\* node of the parent chain from the node up to and including the root, and
\* leaves number_of_visits and wins of every other node unchanged.
C2_VisitsAlongChain ==
    BackPropagated =>
        /\ DOMAIN heap = DOMAIN pre
        /\ \E top \in LastChain : pre[top].parent_node = NoNode
        /\ \A i \in LastChain :
               heap[i].number_of_visits = pre[i].number_of_visits + 1
        /\ \A i \in Nodes \ LastChain :
               /\ heap[i].number_of_visits = pre[i].number_of_visits
               /\ heap[i].wins = pre[i].wins

\* C2 witness: a back_propagate from a grandchild of the root, with a node
\* off the chain.
C2_Witness ==
    /\ BackPropagated
    /\ Cardinality(LastChain) >= 3
    /\ Nodes \ LastChain # {}

\* C3: in one back_propagate call, a chain node whose mover equals
\* leaf_move_turn gains a win iff result > 0.75, any other chain node gains a
\* win iff result < 0.25; a result in [0.25, 0.75] adds no win anywhere.
C3_WinRule ==
    BackPropagated =>
        /\ \A i \in LastChain :
               IF move_turn(pre[i].game) = args.leaf_move_turn
               THEN WinsAdded(i, IF args.result > WinAbove THEN 1 ELSE 0)
               ELSE WinsAdded(i, IF args.result < LossBelow THEN 1 ELSE 0)
        /\ (LossBelow <= args.result /\ args.result <= WinAbove) =>
               \A i \in Nodes : WinsAdded(i, 0)

\* C3 witness: a result below 0.25 backed up through nodes of both movers.
C3_Witness ==
    /\ BackPropagated
    /\ args.result < LossBelow
    /\ \E i, j \in LastChain :
           /\ move_turn(pre[i].game) = args.leaf_move_turn
           /\ move_turn(pre[j].game) # args.leaf_move_turn
           /\ WinsAdded(i, 0)
           /\ WinsAdded(j, 1)

\* C4 (as claimed): in a back_propagate call that MCTS makes (lines 200-201,
\* with the selected node's value and mover), a result > 0.75 is credited
\* exactly to the chain nodes where white is to move, a result < 0.25 exactly
\* to those where black is to move.
C4_WhiteResultCreditsWhite ==
    (BackPropagated /\ kind # "direct") =>
        \A i \in LastChain :
            /\ args.result > WinAbove =>
                   WinsAdded(i, IF move_turn(pre[i].game) = "white" THEN 1 ELSE 0)
            /\ args.result < LossBelow =>
                   WinsAdded(i, IF move_turn(pre[i].game) = "black" THEN 1 ELSE 0)

\* MCTS, called with a game, has returned a non-terminal root
FreshReturned ==
    /\ kind = "fresh"
    /\ last = "return"
    /\ ~heap[root].terminal_game_state

\* C5: MCTS started from a fresh game state with a non-terminal root returns
\* a root with a computed policy vector whose children's number_of_visits sum
\* to the iteration budget and to the root's own number_of_visits.
C5_OneVisitPerIteration ==
    FreshReturned =>
        /\ pc = "idle" /\ outcome = "returned"
        /\ heap[root].policy_vector # None
        /\ heap[root].policy_vector_legal_moves # None
        /\ ChildVisits(heap, root) = iterations
        /\ heap[root].number_of_visits = iterations

\* C5 witness: a fresh search of two iterations that visited two children.
C5_Witness ==
    /\ FreshReturned
    /\ iterations >= 2
    /\ Cardinality({ c \in Children(heap, root) : heap[c].number_of_visits > 0 }) >= 2

\* MCTS was just called on a terminal root
TerminalRootCalled == last = "MCTS" /\ heap[root].terminal_game_state

\* C6: MCTS called on a terminal root returns it with no iteration executed:
\* child_nodes stays empty, the policy vector stays as it was (absent on a
\* fresh root), number_of_visits and wins are unchanged, whatever the budget.
C6_TerminalRootUnchanged ==
    TerminalRootCalled =>
        /\ pc = "idle" /\ outcome = "returned" /\ it = 0
        /\ heap[root].child_nodes = <<>>
        /\ IF kind = "fresh"
           THEN /\ Len(heap) = 1
                /\ heap[root].policy_vector = None
                /\ heap[root].policy_vector_legal_moves = None
                /\ heap[root].number_of_visits = 0
                /\ heap[root].wins = 0
           ELSE /\ DOMAIN heap = DOMAIN entry
                /\ \A i \in Nodes :
                       heap[i] = [entry[i] EXCEPT
                                     !.parent_node = IF i = root THEN NoNode ELSE @]

\* C6 witness: a visited terminal node reused as root with a positive budget.
C6_Witness ==
    /\ TerminalRootCalled
    /\ kind = "reuse"
    /\ iterations > 0
    /\ heap[root].number_of_visits > 0
    /\ heap[root].policy_vector = None

\* child i of node n is the child for the i-th legal move
ChildOfMove(n, i) ==
    LET c == heap[n].child_nodes[i]
    IN  /\ c \in Nodes
        /\ heap[c].move = Some(legal_moves(heap[n].game)[i])
        /\ heap[c].game = play_machine_move(heap[n].game, legal_moves(heap[n].game)[i])

\* child_nodes of n is empty or one child per legal move, in order
OneChildPerMove(n) ==
    \/ heap[n].child_nodes = <<>>
    \/ /\ Len(heap[n].child_nodes) = Len(legal_moves(heap[n].game))
       /\ \A i \in 1..Len(heap[n].child_nodes) : ChildOfMove(n, i)

\* C7 (as claimed): each node's child_nodes is empty or holds one child per
\* legal move, in legal-move order, each with parent_node equal to the node.
C7_ChildrenLinkedToParent ==
    \A n \in Nodes :
        /\ OneChildPerMove(n)
        /\ \A i \in 1..Len(heap[n].child_nodes) :
               heap[heap[n].child_nodes[i]].parent_node = n

\* C7 (amended): each node's child_nodes is empty or holds one child per
\* legal move, in legal-move order; a child's parent_node is the node, unless
\* the child was passed to MCTS as starting_node, which cleared the link.
C7_ChildrenPerLegalMove ==
    \A n \in Nodes :
        /\ OneChildPerMove(n)
        /\ \A i \in 1..Len(heap[n].child_nodes) :
               LET c == heap[n].child_nodes[i]
               IN  IF c \in detached
                   THEN heap[c].parent_node = NoNode
                   ELSE heap[c].parent_node = n

\* C7 witness: an expanded node one of whose children was reused as a root,
\* and an expanded node below it.
C7_Witness ==
    \E n \in Nodes :
        \E i \in 1..Len(heap[n].child_nodes) :
            /\ heap[n].child_nodes[i] \in detached
            /\ heap[heap[n].child_nodes[i]].child_nodes # <<>>

\* C8 (as claimed): a terminal node never gets children nor a policy vector.
C8_TerminalNeverExpanded ==
    \A n \in Nodes :
        heap[n].terminal_game_state =>
            /\ heap[n].child_nodes = <<>>
            /\ heap[n].policy_vector = None
            /\ heap[n].policy_vector_legal_moves = None

\* C9 (as claimed): init_all_children or get_policy_vector called on a node
\* that already has its children leaves child_nodes as the first call made it.
C9_ExpansionIdempotent ==
    (/\ last \in {"init_all_children", "get_policy_vector"}
     /\ entry[args.node].child_nodes # <<>>) =>
        heap[args.node].child_nodes = entry[args.node].child_nodes

\* the ancestors and siblings starting_node had when MCTS was called with it
FormerRelatives ==
    LET p == entry[root].parent_node
    IN  IF p = NoNode THEN {}
        ELSE ParentChain(entry, p) \cup (Children(entry, p) \ {root})

\* C10: MCTS called with starting_node clears the node's parent link before
\* any iteration, and the call leaves number_of_visits and wins of the node's
\* former parent, former ancestors and former siblings unchanged.
C10_ReuseDetaches ==
    kind = "reuse" =>
        /\ heap[root].parent_node = NoNode
        /\ \A i \in FormerRelatives :
               /\ heap[i].number_of_visits = entry[i].number_of_visits
               /\ heap[i].wins = entry[i].wins

\* C10 witness: a reuse call on a node that had a parent and a sibling has
\* backed up at least one result.
C10_Witness ==
    /\ kind = "reuse"
    /\ it >= 1
    /\ Cardinality(FormerRelatives) >= 2
    /\ heap[root].number_of_visits > entry[root].number_of_visits

\* C11 (as claimed): get_ucb1_score raises on no child; on a child with
\* number_of_visits 0 it is the fallback (0 when the parent's number_of_visits
\* is 0, C * sqrt(ln N) when it is N > 0); a child with number_of_visits > 0
\* has a parent with number_of_visits >= 1.
C11_Ucb1NeverRaises ==
    \A n \in Nodes :
        \A c \in Children(heap, n) :
            LET score == get_ucb1_score(heap, c)
                N == heap[n].number_of_visits
            IN  /\ score.err = "none"
                /\ heap[c].number_of_visits = 0 =>
                       score.val = IF N = 0 THEN 0 ELSE ISqrt(20 * LnTable[N])
                /\ heap[c].number_of_visits > 0 => N >= 1

\* the value a finished game has for white
Outcome(g) ==
    CASE white_win(g) = Some(TRUE)  -> One
      [] white_win(g) = Some(FALSE) -> 0
      [] OTHER                      -> Half

\* C12: a node of a finished game is valued 1.0, 0.0 or 0.5 by its outcome,
\* any other node by the value oracle, and terminal_game_state is true iff
\* the node's state has no legal move.
C12_ValueAtConstruction ==
    \A n \in Nodes :
        /\ stalemate(heap[n].game) => heap[n].value_evaluation = Outcome(heap[n].game)
        /\ ~stalemate(heap[n].game) =>
               heap[n].value_evaluation = VALUE_NETWORK(heap[n].game)
        /\ heap[n].terminal_game_state <=> (Len(legal_moves(heap[n].game)) = 0)

\* C12 witness: the tree holds a game white won, one black won, a drawn one
\* that still has a legal move, and an undecided one, some of them visited.
C12_Witness ==
    /\ \E n \in Nodes : white_win(heap[n].game) = Some(TRUE)
    /\ \E n \in Nodes : white_win(heap[n].game) = Some(FALSE)
    /\ \E n \in Nodes : /\ stalemate(heap[n].game)
                        /\ white_win(heap[n].game) = None
                        /\ ~heap[n].terminal_game_state
                        /\ heap[n].value_evaluation # VALUE_NETWORK(heap[n].game)
    /\ \E n \in Nodes : ~stalemate(heap[n].game) /\ heap[n].number_of_visits > 0

\* the last step was the back_propagate of an MCTS iteration
IterationBackedUp == BackPropagated /\ kind # "direct"

\* C13 (as claimed): when the descent of an iteration computes the policy
\* vector of the selected node, that node is the one whose value is backed up.
C13_ExpandedNodeEvaluated ==
    (IterationBackedUp /\ expanded # NoNode) => args.node = expanded

\* C13 (amended): the descent goes on after the policy vector is computed: a
\* terminal node is backed up itself, for any other node the backed-up node
\* is the child its new scores select, created by this expansion and with
\* number_of_visits 0.
C13_ChildOfExpandedEvaluated ==
    (IterationBackedUp /\ expanded # NoNode) =>
        /\ pre[expanded].number_of_visits > 0
        /\ pre[expanded].policy_vector_legal_moves # None
        /\ IF pre[expanded].terminal_game_state
           THEN args.node = expanded
           ELSE /\ args.node =
                       select_child(pre, expanded, pre[expanded].policy_vector_legal_moves[1])
                /\ args.node \in Children(pre, expanded)
                /\ args.node # expanded
                /\ pre[args.node].parent_node = expanded
                /\ pre[args.node].number_of_visits = 0
                /\ args.result = pre[args.node].value_evaluation

\* C13 witness: an iteration expanded a node with two legal moves and backed
\* up one of the new children.
C13_Witness ==
    /\ IterationBackedUp
    /\ expanded # NoNode
    /\ Len(pre[expanded].child_nodes) >= 2
    /\ args.node \in Children(pre, expanded)

\* C14: the node an iteration backs up has number_of_visits 0 right before
\* the back_propagate or is terminal, and a non-terminal node is the
\* backed-up node of at most one iteration.
C14_LeafUnvisitedOrTerminal ==
    /\ IterationBackedUp =>
           \/ pre[args.node].number_of_visits = 0
           \/ pre[args.node].terminal_game_state
    /\ \A n \in DOMAIN leaf_count :
           ~heap[n].terminal_game_state => leaf_count[n] <= 1

\* C14 witness: a terminal node was backed up twice, and a non-terminal node,
\* backed up once, has been passed through again.
C14_Witness ==
    /\ \E n \in DOMAIN leaf_count :
           heap[n].terminal_game_state /\ leaf_count[n] >= 2
    /\ \E n \in DOMAIN leaf_count :
           /\ ~heap[n].terminal_game_state
           /\ leaf_count[n] = 1
           /\ heap[n].number_of_visits >= 2

\* MCTS was just called with a starting_node
ReuseCalled == last = "MCTS" /\ kind = "reuse"

\* C15 (as claimed): called with a starting_node that has a policy vector,
\* MCTS leaves the stored policy vector and blended scores as they were.
C15_PresentVectorKept ==
    (ReuseCalled /\ entry[root].policy_vector_legal_moves # None) =>
        PolicyFields(heap, root) = PolicyFields(entry, root)

\* normalized policy probability of move slot i in game g
Prior(g, i) == (Slot(POLICY_NETWORK(g), i) * One) \div reduce_sum(POLICY_NETWORK(g))

\* the blended scores of node n from the children's present statistics
Blend(h, n) ==
    [i \in 1..Len(h[n].child_nodes) |->
        h[h[n].child_nodes[i]].value_evaluation
        + get_ucb1_score(h, h[n].child_nodes[i]).val
        + Prior(h[n].game, i)]

\* C15 (amended): MCTS computes the policy vector of a non-terminal root on
\* every call, present or not: after the setup the stored scores are the
\* blend of the children's present statistics, and existing children are kept.
C15_VectorRecomputed ==
    (ReuseCalled /\ ~heap[root].terminal_game_state /\ outcome \in {"none", "returned"}) =>
        /\ heap[root].policy_vector_legal_moves = Some(Blend(heap, root))
        /\ heap[root].policy_vector =
               Some([head |-> Blend(heap, root),
                     zeros |-> MAX_MOVES - Len(legal_moves(heap[root].game))])
        /\ entry[root].child_nodes # <<>> =>
               heap[root].child_nodes = entry[root].child_nodes

\* C15 witness: a reuse call found a policy vector and stored different scores.
C15_Witness ==
    /\ ReuseCalled
    /\ entry[root].policy_vector_legal_moves # None
    /\ heap[root].policy_vector_legal_moves # entry[root].policy_vector_legal_moves
    /\ heap[root].child_nodes = entry[root].child_nodes

\* C16: the root's stored policy_vector_legal_moves and policy_vector stay
\* what the setup of the call made them, through every iteration.
C16_NoiseNotStored ==
    kind \in {"fresh", "reuse"} => PolicyFields(heap, root) = root_pv

\* C16 witness: an iteration whose noise selected another child than the
\* stored scores alone select.
C16_Witness ==
    /\ IterationBackedUp
    /\ \E c \in Children(heap, root) \cap LastChain :
           c # select_child(heap, root, heap[root].policy_vector_legal_moves[1])

\* C17: a call that entered the iteration loop returns the root after
\* exactly `iterations` backpropagations.
C17_CallTerminates ==
    (pc # "idle") ~>
        (pc = "idle" /\ last = "return" /\ outcome = "returned" /\ it = iterations)

\* C17 witness: a call of two or more iterations returned after a descent
\* that went two plies below the start position.
C17_Witness ==
    /\ last = "return"
    /\ iterations >= 2
    /\ it = iterations
    /\ \E n \in Nodes : Len(heap[n].game) >= 2 /\ heap[n].number_of_visits >= 1

\* the select_child invocations the next step of the search makes
SelectCalls ==
    IF pc = "loop" /\ it < iterations
    THEN {[node |-> root,
           scores |-> TensorAdd(heap[root].policy_vector_legal_moves[1], d).val] :
             d \in Dirichlet(Len(legal_moves(heap[root].game)))}
    ELSE IF /\ pc = "descend"
            /\ heap[selected_node].number_of_visits > 0
            /\ heap[selected_node].policy_vector_legal_moves # None
            /\ ~heap[selected_node].terminal_game_state
    THEN {[node |-> selected_node,
           scores |-> heap[selected_node].policy_vector_legal_moves[1]]}
    ELSE {}

\* C18: every select_child invocation of an MCTS run gets a non-empty score
\* sequence as long as the node's child list, and returns a child of the
\* node; no run ends in the empty-score defect.
C18_SelectPrecondition ==
    /\ \A call \in SelectCalls :
           /\ Len(call.scores) >= 1
           /\ Len(call.scores) = Len(heap[call.node].child_nodes)
           /\ argmax(call.scores) \in 1..Len(heap[call.node].child_nodes)
           /\ select_child(heap, call.node, call.scores) \in Children(heap, call.node)
    /\ outcome \notin {"IndexError", "InvalidArgumentError"}

\* C18 witness: the descent is about to select among the two children of a
\* visited non-root node.
C18_Witness ==
    /\ pc = "descend"
    /\ selected_node # root
    /\ \E call \in SelectCalls : Len(call.scores) = 2

\* C19: in a search on a fresh game, a policy vector is computed for the root
\* at number_of_visits 0 and for any other node at number_of_visits 1, the
\* children having number_of_visits 0; every stored score is the child's
\* value plus the prior, with a UCB1 contribution of 0.
C19_FreshScoresWithoutStatistics ==
    kind = "fresh" =>
        /\ (last = "MCTS" /\ ~heap[root].terminal_game_state) =>
               /\ heap[root].number_of_visits = 0
               /\ ChildVisits(heap, root) = 0
        /\ last = "expand" =>
               /\ selected_node # root
               /\ heap[selected_node].number_of_visits = 1
               /\ ChildVisits(heap, selected_node) = 0
               /\ \A c \in Children(heap, selected_node) :
                      get_ucb1_score(heap, c) = [err |-> "none", val |-> 0]
        /\ \A n \in Nodes :
               heap[n].policy_vector_legal_moves # None =>
                   \A i \in 1..Len(heap[n].child_nodes) :
                       heap[n].policy_vector_legal_moves[1][i] =
                           heap[heap[n].child_nodes[i]].value_evaluation
                           + Prior(heap[n].game, i)

\* C19 witness: a fresh search has expanded a non-root node and backed up a
\* win through one of its children.
C19_Witness ==
    /\ kind = "fresh"
    /\ \E n \in Nodes :
           /\ heap[n].parent_node # NoNode
           /\ heap[n].policy_vector_legal_moves # None
           /\ Len(heap[n].child_nodes) >= 1
           /\ ChildVisits(heap, n) >= 1
    /\ \E n \in Nodes : heap[n].wins >= 1

\* non-root, non-terminal nodes with a computed policy vector
Interior ==
    {n \in Nodes : /\ heap[n].parent_node # NoNode
                   /\ ~heap[n].terminal_game_state
                   /\ heap[n].policy_vector_legal_moves # None}

\* C20: as long as only MCTS touches the tree, the scores of a non-root,
\* non-terminal node stay as first computed, so the one child they select is
\* the only child of the node that ever has visits or wins.
C20_SameChildSelected ==
    directs = 0 =>
        \A n \in Interior :
            LET scores == heap[n].policy_vector_legal_moves[1]
                chosen == select_child(heap, n, scores)
            IN  /\ \A i \in 1..Len(heap[n].child_nodes) :
                       scores[i] = heap[heap[n].child_nodes[i]].value_evaluation
                                   + Prior(heap[n].game, i)
                /\ chosen \in Children(heap, n)
                /\ \A c \in Children(heap, n) \ {chosen} :
                       heap[c].number_of_visits = 0 /\ heap[c].wins = 0
                /\ (pc = "descend" /\ last = "descend"
                    /\ heap[selected_node].parent_node = n) => selected_node = chosen

\* C20 witness: a node with two children was passed through twice after its
\* expansion, both times into the same child.
C20_Witness ==
    /\ directs = 0
    /\ \E n \in Interior :
           /\ Len(heap[n].child_nodes) >= 2
           /\ heap[select_child(heap, n, heap[n].policy_vector_legal_moves[1])].number_of_visits >= 2

====
